---- MODULE Spec2Model ----
(***************************************************************************)
(* A model of the tecs entity-component store.                             *)
(*                                                                         *)
(* The crate holds two copies of the store: `Ecs` of lib.rs, queried with  *)
(* `Query::iter` (QueryIter), and `core::Ecs` of core.rs, iterated with    *)
(* `component_iter` / `component_iter_mut` and queried with                *)
(* `Queryable::fetch` of query.rs.  The variable `backing` says which of   *)
(* the two the program has instantiated.                                   *)
(*                                                                         *)
(* Rust vectors are 0-based: `storage[i]` of the code is `storage[i + 1]`  *)
(* here.  An `Option<T>` is a sequence of length 0 (None) or 1 (Some).     *)
(* A reference into a component storage is the address of its slot,        *)
(* [ty |-> type id, idx |-> index in the storage vector].                  *)
(***************************************************************************)
EXTENDS Integers, Sequences, FiniteSets, Bags, TLC

\* ------------------------------------------------------------------------
\* Bounds of the model
\* ------------------------------------------------------------------------

\* next_entity_id never grows beyond this many issued ids
MaxEntities == 2

\* a builder holds at most this many components
MaxComponents == 2

\* the component types (TypeId) the program uses
Types == {"A", "B"}

\* the distinguishable values of a component; the store never inspects them
Values == {"v", "w"}

\* the entity ids a caller passes: the ids that can be issued, and one that
\* is beyond every storage
EntityIds == 0 .. MaxEntities

\* ------------------------------------------------------------------------
\* Option, Box<dyn Any>, Vec and HashMap
\* ------------------------------------------------------------------------

None == << >>

Some(x) == << x >>

\* Box::new(component): the value together with its concrete type
Box(t, v) == [ty |-> t, val |-> v]

Boxes == { Box(t, v) : t \in Types, v \in Values }

\* <dyn Any>::downcast_ref / downcast_mut to T of the box stored in slot r
downcast_ref(b, T, r) == IF b.ty = T THEN Some(r) ELSE None

\* Vec::get / Vec::get_mut
vec_get(v, i) == IF i < Len(v) THEN Some(v[i + 1]) ELSE None

\* HashMap::get / HashMap::get_mut
hash_get(m, k) == IF k \in DOMAIN m THEN Some(m[k]) ELSE None

\* Vec::resize_with(new_len, || None)
resize_with(v, new_len) ==
    IF new_len <= Len(v)
    THEN SubSeq(v, 1, new_len)
    ELSE v \o [i \in 1 .. (new_len - Len(v)) |-> None]

\* a reference to the slot idx of the storage of type ty
Ref(t, i) == [ty |-> t, idx |-> i]

\* ------------------------------------------------------------------------
\* Ecs: the entity allocator and the component storages
\* ------------------------------------------------------------------------

\* Ecs::new
new ==
    [next_entity_id |-> 0,
     entity_free_list |-> << >>,
     components |-> [t \in {} |-> << >>]]

\* Ecs::resize_component_stores
resize_component_stores(e) ==
    [e EXCEPT !.components =
        [t \in DOMAIN e.components |->
            resize_with(e.components[t], e.next_entity_id + 1)]]

\* fetch_next_entity_id taking the oldest id of the free list
fetch_next_entity_id_fifo(e) ==
    IF e.entity_free_list # << >>
    THEN [ecs |-> [e EXCEPT !.entity_free_list = Tail(e.entity_free_list)],
          id |-> Head(e.entity_free_list)]
    ELSE [ecs |-> [resize_component_stores(e) EXCEPT
                      !.next_entity_id = e.next_entity_id + 1],
          id |-> e.next_entity_id]

\* fetch_next_entity_id of core.rs passing over an id when it takes a fresh
\* one
fetch_next_entity_id_skips(e) ==
    IF e.entity_free_list # << >>
    THEN [ecs |-> [e EXCEPT !.entity_free_list =
                      SubSeq(e.entity_free_list, 1, Len(e.entity_free_list) - 1)],
          id |-> e.entity_free_list[Len(e.entity_free_list)]]
    ELSE [ecs |-> [resize_component_stores(e) EXCEPT
                      !.next_entity_id = e.next_entity_id + 2],
          id |-> e.next_entity_id]

\* fetch_next_entity_id of core.rs leaving the reused id on the free list
fetch_next_entity_id_peek(e) ==
    IF e.entity_free_list # << >>
    THEN [ecs |-> e, id |-> e.entity_free_list[Len(e.entity_free_list)]]
    ELSE [ecs |-> [resize_component_stores(e) EXCEPT
                      !.next_entity_id = e.next_entity_id + 1],
          id |-> e.next_entity_id]

\* Ecs::fetch_next_entity_id of core.rs: [ecs |-> the store afterwards, id |-> the id]
fetch_next_entity_id(e) ==
    IF e.entity_free_list # << >>
    THEN [ecs |-> [e EXCEPT !.entity_free_list =
                      SubSeq(e.entity_free_list, 1, Len(e.entity_free_list) - 1)],
          id |-> e.entity_free_list[Len(e.entity_free_list)]]
    ELSE [ecs |-> [resize_component_stores(e) EXCEPT
                      !.next_entity_id = e.next_entity_id + 1],
          id |-> e.next_entity_id]

\* fetch_next_entity_id reading the free list without popping it
lib_fetch_next_entity_id_peek(e) ==
    IF Len(e.entity_free_list) = 0
    THEN [ecs |-> [resize_component_stores(e) EXCEPT
                      !.next_entity_id = e.next_entity_id + 1],
          id |-> e.next_entity_id]
    ELSE [ecs |-> e, id |-> e.entity_free_list[Len(e.entity_free_list)]]

\* Ecs::fetch_next_entity_id of lib.rs
lib_fetch_next_entity_id(e) ==
    IF Len(e.entity_free_list) = 0
    THEN [ecs |-> [resize_component_stores(e) EXCEPT
                      !.next_entity_id = e.next_entity_id + 1],
          id |-> e.next_entity_id]
    ELSE [ecs |-> [e EXCEPT !.entity_free_list =
                      SubSeq(e.entity_free_list, 1, Len(e.entity_free_list) - 1)],
          id |-> e.entity_free_list[Len(e.entity_free_list)]]

\* build_store creating a storage without storing the component in it
build_store_forgets(e, id, component) ==
    LET type_id == component.ty IN
    IF type_id \in DOMAIN e.components
    THEN IF id < Len(e.components[type_id])
         THEN [ecs |-> [e EXCEPT !.components[type_id][id + 1] = Some(component)],
               panic |-> FALSE]
         ELSE [ecs |-> e, panic |-> TRUE]
    ELSE [ecs |-> [e EXCEPT !.components =
                      [t \in DOMAIN e.components \cup {type_id} |->
                          IF t = type_id THEN resize_with(<< >>, id + 1)
                          ELSE e.components[t]]],
          panic |-> FALSE]

\* the loop body of EntityBuilder::build for one component: the storage of
\* the component's type is written at id, or created with id + 1 slots.
\* storage[id] = .. panics when id is not an index of the storage.
build_store(e, id, component) ==
    LET type_id == component.ty IN
    IF type_id \in DOMAIN e.components
    THEN IF id < Len(e.components[type_id])
         THEN [ecs |-> [e EXCEPT !.components[type_id][id + 1] = Some(component)],
               panic |-> FALSE]
         ELSE [ecs |-> e, panic |-> TRUE]
    ELSE LET storage == [resize_with(<< >>, id + 1) EXCEPT ![id + 1] = Some(component)]
         IN  [ecs |-> [e EXCEPT !.components =
                          [t \in DOMAIN e.components \cup {type_id} |->
                              IF t = type_id THEN storage ELSE e.components[t]]],
              panic |-> FALSE]

\* the loop of EntityBuilder::build taking the components from the last one
\* pushed to the first
RECURSIVE build_loop_reversed(_, _, _)
build_loop_reversed(e, id, components) ==
    IF components = << >>
    THEN [ecs |-> e, panic |-> FALSE]
    ELSE LET r == build_store(e, id, components[Len(components)]) IN
         IF r.panic THEN r
         ELSE build_loop_reversed(r.ecs, id,
                                  SubSeq(components, 1, Len(components) - 1))

\* the loop of EntityBuilder::build over the builder's components, in the
\* order with_component pushed them; it stops at the first panic
RECURSIVE build_loop(_, _, _)
build_loop(e, id, components) ==
    IF components = << >>
    THEN [ecs |-> e, panic |-> FALSE]
    ELSE LET r == build_store(e, id, Head(components)) IN
         IF r.panic THEN r ELSE build_loop(r.ecs, id, Tail(components))

\* build storing only the first component of the builder
build_first(e, fetch, components) ==
    LET r == build_loop(fetch.ecs, fetch.id,
                        IF components = << >> THEN << >> ELSE << Head(components) >>)
    IN  [ecs |-> r.ecs, id |-> fetch.id, panic |-> r.panic]

\* EntityBuilder::build over the store e, with the id allocator fetch of the
\* backing: [ecs, id, panic]
build(e, fetch, components) ==
    LET r == build_loop(fetch.ecs, fetch.id, components)
    IN  [ecs |-> r.ecs, id |-> fetch.id, panic |-> r.panic]

\* Ecs::remove_entity panics at component[entity_id] = None for a storage
\* that has no slot entity_id
remove_entity_panics(e, entity_id) ==
    \E t \in DOMAIN e.components : ~(entity_id < Len(e.components[t]))

\* remove_entity that clears the components and forgets the free list
remove_entity_no_push(e, entity_id) ==
    [e EXCEPT
        !.components =
            [t \in DOMAIN e.components |->
                [e.components[t] EXCEPT ![entity_id + 1] = None]]]

\* remove_entity that pushes the id and leaves the components in place
remove_entity_keeps(e, entity_id) ==
    [e EXCEPT !.entity_free_list = Append(e.entity_free_list, entity_id)]

\* remove_entity that empties every storage
remove_entity_sweeps(e, entity_id) ==
    [e EXCEPT
        !.components =
            [t \in DOMAIN e.components |->
                [i \in 1 .. Len(e.components[t]) |-> None]],
        !.entity_free_list = Append(e.entity_free_list, entity_id)]

\* Ecs::remove_entity when no storage is too short
remove_entity(e, entity_id) ==
    [e EXCEPT
        !.components =
            [t \in DOMAIN e.components |->
                [e.components[t] EXCEPT ![entity_id + 1] = None]],
        !.entity_free_list = Append(e.entity_free_list, entity_id)]

\* Ecs::remove_entity up to its panic: values_mut() visits the storages in
\* the HashMap's order, so any set of long enough storages has been cleared
\* when the loop reaches a storage that is too short
remove_entity_partial(e, entity_id, cleared) ==
    [e EXCEPT
        !.components =
            [t \in DOMAIN e.components |->
                IF t \in cleared
                THEN [e.components[t] EXCEPT ![entity_id + 1] = None]
                ELSE e.components[t]]]

\* Ecs::component: Option<&T>, the reference being the slot's address
component(e, T, entity_id) ==
    LET storage == hash_get(e.components, T) IN
    IF storage = None THEN None
    ELSE LET slot == vec_get(storage[1], entity_id) IN
         IF slot = None THEN None
         ELSE IF slot[1] = None THEN None
              ELSE downcast_ref(slot[1][1], T, Ref(T, entity_id))

\* component_mut without the as_mut()? that stops at an empty slot
component_mut_unchecked(e, T, entity_id) ==
    LET storage == hash_get(e.components, T) IN
    IF storage = None THEN None
    ELSE LET slot == vec_get(storage[1], entity_id) IN
         IF slot = None THEN None ELSE Some(Ref(T, entity_id))

\* Ecs::component_mut: Option<&mut T>
component_mut(e, T, entity_id) ==
    LET storage == hash_get(e.components, T) IN
    IF storage = None THEN None
    ELSE LET slot == vec_get(storage[1], entity_id) IN
         IF slot = None THEN None
         ELSE IF slot[1] = None THEN None
              ELSE downcast_ref(slot[1][1], T, Ref(T, entity_id))

\* *r: the component a reference points to
deref(e, r) == e.components[r.ty][r.idx + 1][1].val

\* a write that reaches every component of the storage
write_storage(e, r, v) ==
    [e EXCEPT !.components[r.ty] =
        [i \in 1 .. Len(e.components[r.ty]) |->
            IF e.components[r.ty][i] = None THEN None ELSE Some(Box(r.ty, v))]]

\* *r = v through a mutable reference
write(e, r, v) ==
    [e EXCEPT !.components[r.ty][r.idx + 1] = Some(Box(r.ty, v))]

\* ------------------------------------------------------------------------
\* QueryIter of lib.rs
\* ------------------------------------------------------------------------

\* the closure of the `any` in QueryIter::next for one requested type: TRUE
\* when the type has no storage or no component at index; the expect panics
\* when the storage has no slot index
QueryIter_absent(e, type_id, index) ==
    LET storage == hash_get(e.components, type_id) IN
    IF storage = None THEN "true"
    ELSE LET slot == vec_get(storage[1], index) IN
         IF slot = None THEN "panic"
         ELSE IF slot[1] = None THEN "true" ELSE "false"

\* QueryIter_any looking at the first requested type only
QueryIter_any_first(e, type_ids, index) ==
    IF type_ids = << >> THEN "false"
    ELSE QueryIter_absent(e, Head(type_ids), index)

\* component_type_ids.iter().any(..): the types in order, stopping at the
\* first type that is absent or whose lookup panics
RECURSIVE QueryIter_any(_, _, _)
QueryIter_any(e, type_ids, index) ==
    IF type_ids = << >> THEN "false"
    ELSE LET a == QueryIter_absent(e, Head(type_ids), index) IN
         IF a = "false" THEN QueryIter_any(e, Tail(type_ids), index) ELSE a

\* the while loop of QueryIter::next: the first index from `index` on at
\* which every requested type has a component
RECURSIVE QueryIter_skip(_, _, _)
QueryIter_skip(e, type_ids, index) ==
    LET a == QueryIter_any(e, type_ids, index) IN
    IF a = "panic" THEN [index |-> index, outcome |-> "panic"]
    ELSE IF a = "false" THEN [index |-> index, outcome |-> "found"]
    ELSE IF index + 1 >= e.next_entity_id
         THEN [index |-> index + 1, outcome |-> "end"]
         ELSE QueryIter_skip(e, type_ids, index + 1)

\* self.ecs.components.get(type_id)?.get(self.index)?.as_ref()? of
\* QueryIter::next: the address of the box at index, if there is one
QueryIter_box(e, type_id, index) ==
    LET storage == hash_get(e.components, type_id) IN
    IF storage = None THEN None
    ELSE LET slot == vec_get(storage[1], index) IN
         IF slot = None THEN None
         ELSE IF slot[1] = None THEN None ELSE Some(Ref(type_id, index))

\* From<QueryResult>: result.0[idx].downcast_ref().unwrap() for every
\* position of the tuple; the unwrap panics on a box of another type
QueryResult_from(e, type_ids, result) ==
    LET refs == [k \in 1 .. Len(type_ids) |->
                    downcast_ref(e.components[result[k].ty][result[k].idx + 1][1],
                                 type_ids[k], result[k])]
    IN  IF \E k \in 1 .. Len(type_ids) : refs[k] = None
        THEN [panic |-> TRUE, item |-> << >>]
        ELSE [panic |-> FALSE, item |-> [k \in 1 .. Len(type_ids) |-> refs[k][1]]]

\* QueryIter::next from the iterator state `index`: [item, index, panic];
\* the item is the tuple of references From<QueryResult> builds
QueryIter_next(e, type_ids, index) ==
    IF index >= e.next_entity_id
    THEN [item |-> None, index |-> index, panic |-> FALSE]
    ELSE LET s == QueryIter_skip(e, type_ids, index) IN
         IF s.outcome = "panic"
         THEN [item |-> None, index |-> s.index, panic |-> TRUE]
         ELSE IF s.outcome = "end"
         THEN [item |-> None, index |-> s.index, panic |-> FALSE]
         ELSE LET boxes == [k \in 1 .. Len(type_ids) |->
                               QueryIter_box(e, type_ids[k], s.index)] IN
              IF \E k \in 1 .. Len(type_ids) : boxes[k] = None
              THEN [item |-> None, index |-> s.index, panic |-> FALSE]
              ELSE LET r == QueryResult_from(e, type_ids,
                                [k \in 1 .. Len(type_ids) |-> boxes[k][1]]) IN
                   IF r.panic
                   THEN [item |-> None, index |-> s.index + 1, panic |-> TRUE]
                   ELSE [item |-> Some(r.item), index |-> s.index + 1,
                         panic |-> FALSE]

\* the items a `for` loop over Query::iter(&ecs) receives, and whether the
\* loop ends in a panic
RECURSIVE QueryIter_collect(_, _, _, _)
QueryIter_collect(e, type_ids, index, items) ==
    LET n == QueryIter_next(e, type_ids, index) IN
    IF n.panic THEN [items |-> items, panic |-> TRUE]
    ELSE IF n.item = None THEN [items |-> items, panic |-> FALSE]
    ELSE QueryIter_collect(e, type_ids, n.index, Append(items, n.item[1]))

\* the closure of the `all` in QueryIter::size_hint for one requested type:
\* TRUE when the type has a storage and a component at i; the expect panics
\* when the storage has no slot i
QueryIter_has(e, type_id, i) ==
    LET storage == hash_get(e.components, type_id) IN
    IF storage = None THEN "false"
    ELSE LET slot == vec_get(storage[1], i) IN
         IF slot = None THEN "panic"
         ELSE IF slot[1] = None THEN "false" ELSE "true"

\* component_type_ids.iter().all(..): the types in order, stopping at the
\* first type that has no component or whose lookup panics
RECURSIVE QueryIter_all(_, _, _)
QueryIter_all(e, type_ids, i) ==
    IF type_ids = << >> THEN "true"
    ELSE LET a == QueryIter_has(e, Head(type_ids), i) IN
         IF a = "true" THEN QueryIter_all(e, Tail(type_ids), i) ELSE a

\* the loop of QueryIter::size_hint from i on: [count, panic]
RECURSIVE QueryIter_count(_, _, _, _)
QueryIter_count(e, type_ids, i, count) ==
    IF i >= e.next_entity_id THEN [count |-> count, panic |-> FALSE]
    ELSE LET a == QueryIter_all(e, type_ids, i) IN
         IF a = "panic" THEN [count |-> count, panic |-> TRUE]
         ELSE QueryIter_count(e, type_ids, i + 1,
                              IF a = "true" THEN count + 1 ELSE count)

\* QueryIter::size_hint, and ExactSizeIterator::len that returns its lower
\* bound: the count goes over every id from 0, wherever the iterator is
QueryIter_size_hint(e, type_ids, index) == QueryIter_count(e, type_ids, 0, 0)

\* k calls of QueryIter::next, fewer when the iterator ends or panics:
\* [items, index, panic]
RECURSIVE QueryIter_take(_, _, _, _, _)
QueryIter_take(e, type_ids, index, k, items) ==
    IF k = 0 THEN [items |-> items, index |-> index, panic |-> FALSE]
    ELSE LET n == QueryIter_next(e, type_ids, index) IN
         IF n.panic THEN [items |-> items, index |-> n.index, panic |-> TRUE]
         ELSE IF n.item = None
         THEN [items |-> items, index |-> n.index, panic |-> FALSE]
         ELSE QueryIter_take(e, type_ids, n.index, k - 1, Append(items, n.item[1]))

\* ------------------------------------------------------------------------
\* ComponentIter / ComponentIterMut of core.rs and Queryable of query.rs
\* ------------------------------------------------------------------------

\* ComponentIter::new / ComponentIterMut::new: the slice iterator over the
\* storage of T at its first slot; the unwrap panics when T has no storage
ComponentIter_new(e, T) ==
    IF hash_get(e.components, T) = None
    THEN [panic |-> TRUE, iter |-> [ty |-> T, pos |-> 0]]
    ELSE [panic |-> FALSE, iter |-> [ty |-> T, pos |-> 0]]

\* find_map giving up at the first empty slot
find_map_stops(storage, pos) ==
    IF pos >= Len(storage) THEN [found |-> None, pos |-> pos]
    ELSE IF storage[pos + 1] # None THEN [found |-> Some(pos), pos |-> pos + 1]
    ELSE [found |-> None, pos |-> pos + 1]

\* iterator.find_map(|x| x.as_ref()): the first slot from pos on that holds
\* a component, or the end of the storage
RECURSIVE find_map(_, _)
find_map(storage, pos) ==
    IF pos >= Len(storage) THEN [found |-> None, pos |-> pos]
    ELSE IF storage[pos + 1] # None THEN [found |-> Some(pos), pos |-> pos + 1]
    ELSE find_map(storage, pos + 1)

\* ComponentIter::next / ComponentIterMut::next: [item, iter]
ComponentIter_next(e, it) ==
    LET f == find_map(e.components[it.ty], it.pos) IN
    IF f.found = None
    THEN [item |-> None, iter |-> [it EXCEPT !.pos = f.pos]]
    ELSE [item |-> downcast_ref(e.components[it.ty][f.found[1] + 1][1], it.ty,
                                Ref(it.ty, f.found[1])),
          iter |-> [it EXCEPT !.pos = f.pos]]

\* the items a loop over component_iter::<T>() / component_iter_mut::<T>()
\* receives
RECURSIVE ComponentIter_drain(_, _, _)
ComponentIter_drain(e, it, items) ==
    LET n == ComponentIter_next(e, it) IN
    IF n.item = None THEN items
    ELSE ComponentIter_drain(e, n.iter, Append(items, n.item[1]))

\* Ecs::component_iter / Ecs::component_iter_mut run to the end
component_iter(e, T) ==
    LET c == ComponentIter_new(e, T) IN
    IF c.panic THEN [items |-> << >>, panic |-> TRUE]
    ELSE [items |-> ComponentIter_drain(e, c.iter, << >>), panic |-> FALSE]

\* the update loop writing through the first reference only
ComponentIterMut_update_first(e, it, v, items) ==
    LET n == ComponentIter_next(e, it) IN
    IF n.item = None THEN [ecs |-> e, items |-> items]
    ELSE [ecs |-> write(e, n.item[1], v), items |-> Append(items, n.item[1])]

\* for c in ecs.component_iter_mut::<T>() { *c = v } from the iterator it
\* on: [ecs, items], items being the references the loop body received
RECURSIVE ComponentIterMut_update(_, _, _, _)
ComponentIterMut_update(e, it, v, items) ==
    LET n == ComponentIter_next(e, it) IN
    IF n.item = None THEN [ecs |-> e, items |-> items]
    ELSE ComponentIterMut_update(write(e, n.item[1], v), n.iter, v,
                                 Append(items, n.item[1]))

\* Ecs::component_iter_mut and the loop over it: [ecs, items, panic]
component_iter_mut(e, T, v) ==
    LET c == ComponentIter_new(e, T) IN
    IF c.panic THEN [ecs |-> e, items |-> << >>, panic |-> TRUE]
    ELSE LET u == ComponentIterMut_update(e, c.iter, v, << >>)
         IN  [ecs |-> u.ecs, items |-> u.items, panic |-> FALSE]

\* Queryable::fetch of a tuple of accessors (Mut<T> or Imm<T>): one
\* component iterator per accessor, made in the tuple's order
fetch(e, accessors) ==
    LET made == [k \in 1 .. Len(accessors) |-> ComponentIter_new(e, accessors[k].ty)]
    IN  [panic |-> \E k \in 1 .. Len(accessors) : made[k].panic,
         iters |-> [k \in 1 .. Len(accessors) |-> made[k].iter]]

\* Zip::next of itertools::multizip: next() of each iterator in the tuple's
\* order, returning None at the first iterator that is at its end
RECURSIVE Zip_next(_, _, _, _)
Zip_next(e, iters, k, refs) ==
    IF k > Len(iters) THEN [item |-> Some(refs), iters |-> iters]
    ELSE LET n == ComponentIter_next(e, iters[k]) IN
         IF n.item = None
         THEN [item |-> None, iters |-> [iters EXCEPT ![k] = n.iter]]
         ELSE Zip_next(e, [iters EXCEPT ![k] = n.iter], k + 1,
                       Append(refs, n.item[1]))

\* the items a loop over the zipped iterators receives
RECURSIVE Zip_drain(_, _, _)
Zip_drain(e, iters, items) ==
    LET n == Zip_next(e, iters, 1, << >>) IN
    IF n.item = None THEN items
    ELSE Zip_drain(e, n.iters, Append(items, n.item[1]))

\* the items of <(..)>::fetch(&mut ecs) run to the end
fetch_collect(e, accessors) ==
    LET f == fetch(e, accessors) IN
    IF f.panic THEN [items |-> << >>, panic |-> TRUE]
    ELSE [items |-> Zip_drain(e, f.iters, << >>), panic |-> FALSE]

\* ------------------------------------------------------------------------
\* System and SystemSchedule of system.rs
\* ------------------------------------------------------------------------

\* System::<Q>::new(f) for a function f that assigns c to every component
\* its item holds a mutable reference to
System(accessors, c) == [query |-> accessors, val |-> c]

\* (self.function)(p): the store after the function of system has run on
\* the item p
function(e, system, p) ==
    [e EXCEPT !.components =
        [t \in DOMAIN e.components |->
            [i \in 1 .. Len(e.components[t]) |->
                IF \E k \in 1 .. Len(p) :
                      system.query[k].acc = "Mut" /\ p[k] = Ref(t, i - 1)
                THEN Some(Box(t, system.val))
                ELSE e.components[t][i]]]]

\* the loop of System::run leaving after its first item
System_loop_first(e, iters, system, applied) ==
    LET n == Zip_next(e, iters, 1, << >>) IN
    IF n.item = None THEN [ecs |-> e, items |-> applied]
    ELSE [ecs |-> function(e, system, n.item[1]),
          items |-> Append(applied, n.item[1])]

\* for p in Q::fetch(ecs) { (self.function)(p); } from the zipped iterators
\* iters on: [ecs, items], items being the items the function was applied
\* to, in the order of the calls
RECURSIVE System_loop(_, _, _, _)
System_loop(e, iters, system, applied) ==
    LET n == Zip_next(e, iters, 1, << >>) IN
    IF n.item = None THEN [ecs |-> e, items |-> applied]
    ELSE System_loop(function(e, system, n.item[1]), n.iters, system,
                     Append(applied, n.item[1]))

\* System::run: [ecs, items, panic]
System_run(e, system) ==
    LET f == fetch(e, system.query) IN
    IF f.panic THEN [ecs |-> e, items |-> << >>, panic |-> TRUE]
    ELSE LET r == System_loop(e, f.iters, system, << >>)
         IN  [ecs |-> r.ecs, items |-> r.items, panic |-> FALSE]

\* the calls of one system of a schedule: each item with the place k of
\* its system in the list
calls_of(k, items) ==
    [i \in 1 .. Len(items) |-> [system |-> k, item |-> items[i]]]

\* the loop of SystemSchedule::run taking the systems from the end of the
\* list
RECURSIVE SystemSchedule_loop_reversed(_, _, _, _)
SystemSchedule_loop_reversed(e, systems, k, calls) ==
    IF k > Len(systems) THEN [ecs |-> e, calls |-> calls, panic |-> FALSE]
    ELSE LET j == Len(systems) - k + 1
             r == System_run(e, systems[j])
         IN  IF r.panic THEN [ecs |-> r.ecs, calls |-> calls, panic |-> TRUE]
             ELSE SystemSchedule_loop_reversed(r.ecs, systems, k + 1,
                                               calls \o calls_of(j, r.items))

\* for system in &mut self.systems { system.run(ecs); } from the k-th
\* system on: [ecs, calls, panic], calls being the function calls made so
\* far; a panic of a system ends the loop
RECURSIVE SystemSchedule_loop(_, _, _, _)
SystemSchedule_loop(e, systems, k, calls) ==
    IF k > Len(systems) THEN [ecs |-> e, calls |-> calls, panic |-> FALSE]
    ELSE LET r == System_run(e, systems[k]) IN
         IF r.panic THEN [ecs |-> r.ecs, calls |-> calls, panic |-> TRUE]
         ELSE SystemSchedule_loop(r.ecs, systems, k + 1,
                                  calls \o calls_of(k, r.items))

\* SystemSchedule::run: [ecs, calls, panic]
SystemSchedule_run(e, systems) == SystemSchedule_loop(e, systems, 1, << >>)

\* ------------------------------------------------------------------------
\* The program: a caller that owns one store and calls its operations one
\* after the other
\* ------------------------------------------------------------------------

VARIABLES
    backing,    \* "lib": the store is the Ecs of lib.rs; "core": core::Ecs
    ecs,        \* the store
    live,       \* the bag of the ids the caller holds: those build has
                \* returned and the caller has not passed to remove_entity
    released,   \* the ids the caller has passed to remove_entity and not
                \* received from build again, in the order of their removal
    panicked,   \* the thread has panicked
    last        \* the call that has just returned (or panicked), with its
                \* arguments, what it gave, and the store (pre), the ids
                \* held (held) and released (freed) when it was made

vars == << backing, ecs, live, released, panicked, last >>

\* no call has been made, or the result of the last one has been dropped
Idle ==
    [op |-> "idle", id |-> 0, ty |-> "", components |-> << >>,
     query |-> << >>, ret |-> None, items |-> << >>, pre |-> new,
     held |-> EmptyBag, freed |-> << >>, systems |-> << >>]

\* the builders a caller can make: with_component pushes any component,
\* of a type already given too
Builders ==
    UNION { [1 .. n -> Boxes] : n \in 0 .. MaxComponents }

\* the tuples of lib.rs's Query the caller iterates
Queries ==
    { <<"A">>, <<"B">>, <<"A", "B">>, <<"B", "A">>, <<"A", "A">> }

\* how many items the caller takes from an iterator before it asks for its
\* length
Taken == {0, 1}

Mut(T) == [acc |-> "Mut", ty |-> T]

Imm(T) == [acc |-> "Imm", ty |-> T]

\* the tuples of query.rs's Queryable the caller fetches
Queryables ==
    { << Mut("A") >>, << Imm("B") >>,
      << Mut("A"), Imm("B") >>, << Imm("B"), Imm("A") >>,
      << Imm("A"), Imm("A") >>, << Mut("A"), Imm("A") >> }

\* the systems the caller has: the two of the tests of system.rs, one that
\* writes another value to the components heal_system writes, and one over
\* a pair
heal_system == System(<< Mut("A") >>, "v")

teleport_to_origin == System(<< Mut("B") >>, "v")

hurt_system == System(<< Mut("A") >>, "w")

push_system == System(<< Mut("B"), Imm("A") >>, "w")

Systems == { heal_system, teleport_to_origin, hurt_system, push_system }

\* the system lists of the schedules the caller runs
Schedules ==
    { << >>,
      << heal_system, teleport_to_origin >>,
      << heal_system, hurt_system >>,
      << hurt_system, heal_system >>,
      << teleport_to_origin, push_system, heal_system >> }

Init ==
    /\ backing \in {"lib", "core"}
    /\ ecs = new
    /\ live = EmptyBag
    /\ released = << >>
    /\ panicked = FALSE
    /\ last = Idle

\* the id allocator of the store's backing
fetch_id(e) ==
    IF backing = "lib" THEN lib_fetch_next_entity_id(e) ELSE fetch_next_entity_id(e)

\* the removed ids the caller remembers, less the one a build gave again
without_last(ids, id) ==
    LET at == { k \in 1 .. Len(ids) : ids[k] = id } IN
    IF at = {} THEN ids
    ELSE LET k == CHOOSE k \in at : \A j \in at : j <= k IN
         SubSeq(ids, 1, k - 1) \o SubSeq(ids, k + 1, Len(ids))

\* ecs.new_entity().with_component(..)...build()
Build(components) ==
    /\ ~panicked /\ last.op = "idle"
    /\ ecs.entity_free_list # << >> \/ ecs.next_entity_id < MaxEntities
    /\ LET b == build(ecs, fetch_id(ecs), components) IN
        /\ ecs' = b.ecs
        /\ panicked' = b.panic
        /\ live' = IF b.panic THEN live ELSE live (+) SetToBag({b.id})
        /\ released' = IF b.panic THEN released
                       ELSE without_last(released, b.id)
        /\ last' = [Idle EXCEPT !.op = "build", !.id = b.id,
                                !.components = components, !.pre = ecs,
                                !.held = live, !.freed = released]
    /\ UNCHANGED backing

\* ecs.remove_entity(entity_id), whatever the caller knows of entity_id
remove_entity_call(entity_id) ==
    /\ ~panicked /\ last.op = "idle"
    /\ IF remove_entity_panics(ecs, entity_id)
       THEN /\ \E cleared \in SUBSET { t \in DOMAIN ecs.components :
                                          entity_id < Len(ecs.components[t]) } :
                    ecs' = remove_entity_partial(ecs, entity_id, cleared)
            /\ panicked' = TRUE
            /\ UNCHANGED << live, released >>
       ELSE /\ ecs' = remove_entity(ecs, entity_id)
            /\ panicked' = FALSE
            /\ live' = live (-) SetToBag({entity_id})
            /\ released' = Append(released, entity_id)
    /\ last' = [Idle EXCEPT !.op = "remove_entity", !.id = entity_id, !.pre = ecs,
                                !.held = live, !.freed = released]
    /\ UNCHANGED backing

\* ecs.remove_entity(entity_id) of an entity the caller holds
RemoveEntity(entity_id) ==
    /\ BagIn(entity_id, live)
    /\ remove_entity_call(entity_id)

\* how many times the caller has entity_id: held, or removed and not given
\* again since
copies(entity_id) ==
    CopiesIn(entity_id, live)
        + Cardinality({ k \in 1 .. Len(released) : released[k] = entity_id })

\* every id the caller has had was given by a build and removed while held:
\* a removal of an id that is not held leaves a second copy of it, or one
\* that is not below next_entity_id, for ever after
removed_only_live ==
    \A entity_id \in EntityIds :
        /\ copies(entity_id) <= 1
        /\ copies(entity_id) = 1 => entity_id < ecs.next_entity_id

\* a caller's first slip: ecs.remove_entity(entity_id) once more, of an id
\* that was issued and that the caller has removed already
RemoveReleased(entity_id) ==
    /\ removed_only_live
    /\ ~BagIn(entity_id, live)
    /\ entity_id < ecs.next_entity_id
    /\ remove_entity_call(entity_id)

\* a caller's first slip: ecs.remove_entity(entity_id) of the least id that
\* was never issued
RemoveUnissued(entity_id) ==
    /\ removed_only_live
    /\ entity_id = ecs.next_entity_id
    /\ entity_id < MaxEntities
    /\ remove_entity_call(entity_id)

\* ecs.component::<T>(entity_id)
Component(T, entity_id) ==
    /\ ~panicked /\ last.op = "idle"
    /\ last' = [Idle EXCEPT !.op = "component", !.ty = T, !.id = entity_id,
                            !.ret = component(ecs, T, entity_id), !.pre = ecs,
                                !.held = live, !.freed = released]
    /\ UNCHANGED << backing, ecs, live, released, panicked >>

\* ecs.component_mut::<T>(entity_id), and when it gives a reference,
\* *reference = v
ComponentMut(T, entity_id, v) ==
    /\ ~panicked /\ last.op = "idle"
    /\ LET r == component_mut(ecs, T, entity_id) IN
        /\ ecs' = IF r = None THEN ecs ELSE write(ecs, r[1], v)
        /\ last' = [Idle EXCEPT !.op = "component_mut", !.ty = T,
                                !.id = entity_id, !.ret = r,
                                !.components = << Box(T, v) >>, !.pre = ecs,
                                !.held = live, !.freed = released]
    /\ UNCHANGED << backing, live, released, panicked >>

\* for item in <(..)>::iter(&ecs) of lib.rs
RunQueryIter(type_ids) ==
    /\ ~panicked /\ last.op = "idle"
    /\ backing = "lib"
    /\ LET r == QueryIter_collect(ecs, type_ids, 0, << >>) IN
        /\ panicked' = r.panic
        /\ last' = [Idle EXCEPT !.op = "query_iter", !.query = type_ids,
                                !.items = r.items, !.pre = ecs,
                                !.held = live, !.freed = released]
    /\ UNCHANGED << backing, ecs, live, released >>

\* let mut it = <(..)>::iter(&ecs); k times it.next(); it.len()
QueryIterLen(type_ids, k) ==
    /\ ~panicked /\ last.op = "idle"
    /\ backing = "lib"
    /\ LET t == QueryIter_take(ecs, type_ids, 0, k, << >>)
           h == QueryIter_size_hint(ecs, type_ids, t.index)
       IN
        /\ panicked' = (t.panic \/ h.panic)
        /\ last' = [Idle EXCEPT !.op = "query_len", !.query = type_ids,
                                !.items = t.items, !.id = t.index,
                                !.ret = IF t.panic \/ h.panic THEN None
                                        ELSE Some(h.count),
                                !.pre = ecs,
                                !.held = live, !.freed = released]
    /\ UNCHANGED << backing, ecs, live, released >>

\* for item in ecs.component_iter::<T>() / ecs.component_iter_mut::<T>()
RunComponentIter(T) ==
    /\ ~panicked /\ last.op = "idle"
    /\ backing = "core"
    /\ LET r == component_iter(ecs, T) IN
        /\ panicked' = r.panic
        /\ last' = [Idle EXCEPT !.op = "component_iter", !.ty = T,
                                !.items = r.items, !.pre = ecs,
                                !.held = live, !.freed = released]
    /\ UNCHANGED << backing, ecs, live, released >>

\* for c in ecs.component_iter_mut::<T>() { *c = v }
UpdateComponentIterMut(T, v) ==
    /\ ~panicked /\ last.op = "idle"
    /\ backing = "core"
    /\ LET r == component_iter_mut(ecs, T, v) IN
        /\ ecs' = r.ecs
        /\ panicked' = r.panic
        /\ last' = [Idle EXCEPT !.op = "component_iter_mut", !.ty = T,
                                !.components = << Box(T, v) >>,
                                !.items = r.items, !.pre = ecs,
                                !.held = live, !.freed = released]
    /\ UNCHANGED << backing, live, released >>

\* system.run(&mut ecs)
RunSystem(system) ==
    /\ ~panicked /\ last.op = "idle"
    /\ backing = "core"
    /\ LET r == System_run(ecs, system) IN
        /\ ecs' = r.ecs
        /\ panicked' = r.panic
        /\ last' = [Idle EXCEPT !.op = "system", !.systems = << system >>,
                                !.items = r.items, !.pre = ecs,
                                !.held = live, !.freed = released]
    /\ UNCHANGED << backing, live, released >>

\* system_schedule.run(&mut ecs)
RunSchedule(systems) ==
    /\ ~panicked /\ last.op = "idle"
    /\ backing = "core"
    /\ LET r == SystemSchedule_run(ecs, systems) IN
        /\ ecs' = r.ecs
        /\ panicked' = r.panic
        /\ last' = [Idle EXCEPT !.op = "schedule", !.systems = systems,
                                !.items = r.calls, !.pre = ecs,
                                !.held = live, !.freed = released]
    /\ UNCHANGED << backing, live, released >>

\* for item in <(..)>::fetch(&mut ecs) of query.rs
RunFetch(accessors) ==
    /\ ~panicked /\ last.op = "idle"
    /\ backing = "core"
    /\ LET r == fetch_collect(ecs, accessors) IN
        /\ panicked' = r.panic
        /\ last' = [Idle EXCEPT !.op = "fetch", !.query = accessors,
                                !.items = r.items, !.pre = ecs,
                                !.held = live, !.freed = released]
    /\ UNCHANGED << backing, ecs, live, released >>

\* the statement ends: what the call returned is dropped, which ends the
\* borrow of the store
Drop ==
    /\ ~panicked /\ last.op # "idle"
    /\ last' = Idle
    /\ UNCHANGED << backing, ecs, live, released, panicked >>

Next ==
    \/ \E components \in Builders : Build(components)
    \/ \E entity_id \in EntityIds : RemoveEntity(entity_id)
    \/ \E T \in Types, entity_id \in EntityIds : Component(T, entity_id)
    \/ \E T \in Types, entity_id \in EntityIds, v \in Values :
            ComponentMut(T, entity_id, v)
    \/ \E type_ids \in Queries : RunQueryIter(type_ids)
    \/ \E type_ids \in Queries, k \in Taken : QueryIterLen(type_ids, k)
    \/ \E T \in Types : RunComponentIter(T)
    \/ \E T \in Types, v \in Values : UpdateComponentIterMut(T, v)
    \/ \E accessors \in Queryables : RunFetch(accessors)
    \/ \E system \in Systems : RunSystem(system)
    \/ \E systems \in Schedules : RunSchedule(systems)
    \/ Drop

Spec == Init /\ [][Next]_vars

\* what a caller does after a slip, as far as it is followed here: it goes
\* on building entities, without components
AfterSlip ==
    /\ ~removed_only_live
    /\ \/ Build(<< >>)
       \/ Drop

\* the program of a caller that removes an entity twice
NextDoubleRemove ==
    \/ removed_only_live /\ Next
    \/ \E entity_id \in EntityIds : RemoveReleased(entity_id)
    \/ AfterSlip

SpecDoubleRemove == Init /\ [][NextDoubleRemove]_vars

\* the program of a caller that removes an id that was never issued
NextUnissued ==
    \/ removed_only_live /\ Next
    \/ \E entity_id \in EntityIds : RemoveUnissued(entity_id)
    \/ AfterSlip

SpecUnissued == Init /\ [][NextUnissued]_vars

\* ------------------------------------------------------------------------
\* What the claims speak of
\* ------------------------------------------------------------------------

\* entity i has a present component of type T in the store e
present(e, T, i) ==
    /\ T \in DOMAIN e.components
    /\ i < Len(e.components[T])
    /\ e.components[T][i + 1] # None

\* the ids below next_entity_id that have a component of every type of tys
matching(e, tys) ==
    { i \in 0 .. (e.next_entity_id - 1) :
        \A k \in 1 .. Len(tys) : present(e, tys[k], i) }

\* the elements of a set of numbers in ascending order
RECURSIVE ascending(_)
ascending(S) ==
    IF S = {} THEN << >>
    ELSE LET m == CHOOSE x \in S : \A y \in S : x <= y
         IN  << m >> \o ascending(S \ {m})

\* the component types a tuple of accessors requests
types_of(accessors) == [k \in 1 .. Len(accessors) |-> accessors[k].ty]

\* the calls that iterate the store
IterOps == {"query_iter", "component_iter", "component_iter_mut", "fetch"}

\* the component types the last iteration requested
requested ==
    IF last.op = "query_iter" THEN last.query
    ELSE IF last.op = "fetch" THEN types_of(last.query)
    ELSE << last.ty >>

\* C1 - Query completeness: a run of lib.rs's QueryIter over the tuple of
\* types tys yields one item per entity that has a component of every type
\* of tys, in ascending entity-id order, each item holding the components
\* of that one entity, and yields nothing else.
C1_QueryCompleteness ==
    last.op = "query_iter" =>
        LET ids == ascending(matching(last.pre, last.query)) IN
        last.items = [k \in 1 .. Len(ids) |->
                         [j \in 1 .. Len(last.query) |-> Ref(last.query[j], ids[k])]]

\* a query over (A, B) has yielded an entity and skipped another one
C1_Witness ==
    /\ last.op = "query_iter"
    /\ Len(last.query) = 2 /\ last.query[1] # last.query[2]
    /\ Len(last.items) = 1
    /\ last.items[1][1].idx = 1
    /\ present(last.pre, last.query[1], 0)

\* C2 - Lockstep zipping: every tuple a tuple Queryable::fetch yields holds
\* components of one and the same entity.
C2_LockstepZip ==
    last.op = "fetch" =>
        \A k \in 1 .. Len(last.items) :
            \A j \in 1 .. Len(last.items[k]) :
                last.items[k][j].idx = last.items[k][1].idx

\* C3 - Query count: the number of items a tuple Queryable::fetch yields is
\* the number of entities that have every requested component type.
C3_QueryCount ==
    last.op = "fetch" =>
        Len(last.items) = Cardinality(matching(last.pre, types_of(last.query)))

\* the last element of a non-empty sequence
last_of(q) == q[Len(q)]

\* C4 - Id reuse order: build takes the most recently removed id that has
\* not been reused since, and takes a never-issued id only when no removed
\* id is left; that fresh id is next_entity_id, which then grows by one.
C4_IdReuseOrder ==
    last.op = "build" =>
        /\ (last.pre.entity_free_list # << >>) = (last.freed # << >>)
        /\ IF last.freed # << >>
           THEN /\ last.id = last_of(last.freed)
                /\ ecs.next_entity_id = last.pre.next_entity_id
           ELSE /\ last.id = last.pre.next_entity_id
                /\ ecs.next_entity_id = last.pre.next_entity_id + 1

\* a build has reused an id while two removed ids were waiting
C4_Witness ==
    /\ last.op = "build" /\ ~panicked
    /\ Len(last.pre.entity_free_list) = 2
    /\ last.id = 0

\* the elements of a sequence
range(q) == { q[k] : k \in 1 .. Len(q) }

\* C5 - Id uniqueness: no two entities the caller holds share an id; build
\* never gives an id that is in use.
C5_IdUniqueness ==
    /\ \A id \in BagToSet(live) : CopiesIn(id, live) = 1
    /\ last.op = "build" => ~BagIn(last.id, last.held)

\* a build has reused a removed id while another entity was held
C5_Witness ==
    /\ last.op = "build" /\ ~panicked
    /\ last.freed # << >>
    /\ BagCardinality(last.held) = 1
    /\ BagCardinality(live) = 2

\* C6 - Removal: when remove_entity(id) of a held entity has returned,
\* component and component_mut give None for every type the entity had,
\* and id is on the free list, where the next build finds it: whatever its
\* builder holds, that build returns id.
C6_Removal ==
    (last.op = "remove_entity" /\ ~panicked) =>
        /\ \A T \in Types :
              present(last.pre, T, last.id) =>
                  /\ component(ecs, T, last.id) = None
                  /\ component_mut(ecs, T, last.id) = None
        /\ last.id \in range(ecs.entity_free_list)
        /\ \A components \in Builders :
              LET b == build(ecs, fetch_id(ecs), components)
              IN  b.id = last.id /\ ~b.panic

\* an entity with a component has been removed while another removed id
\* was already waiting for reuse
C6_Witness ==
    /\ last.op = "remove_entity" /\ ~panicked
    /\ \E T \in Types : present(last.pre, T, last.id)
    /\ Len(ecs.entity_free_list) = 2

\* the references of the k-th item of the last iteration: component_iter
\* yields references, the queries yield tuples of them
item_refs(k) ==
    IF last.op \in {"component_iter", "component_iter_mut"}
    THEN << last.items[k] >> ELSE last.items[k]

\* C7 - Removed entities are unreachable through iteration: no item that
\* QueryIter, component_iter / component_iter_mut or Queryable::fetch
\* yields holds a component in the slot of an id that was removed and has
\* not been reused.
C7_RemovedUnreachable ==
    last.op \in IterOps =>
        \A k \in 1 .. Len(last.items) :
            \A j \in 1 .. Len(item_refs(k)) :
                item_refs(k)[j].idx \notin range(last.freed)

\* an iteration has yielded an item while a removed id was not yet reused
C7_Witness ==
    /\ last.op \in IterOps
    /\ last.freed = << 0 >>
    /\ last.items # << >>

\* the value read back through component::<T>(id) is v
reads_back(e, T, id, v) ==
    LET r == component(e, T, id) IN r # None /\ deref(e, r[1]) = v

\* C8 as the spec states it - Round trip: when build() is called with a
\* component value v of type T and returns id, component::<T>(id) gives v;
\* after a write through component_mut::<T>(id), component::<T>(id) gives
\* the written value.
C8_RoundTrip ==
    /\ (last.op = "build" /\ ~panicked) =>
          \A k \in 1 .. Len(last.components) :
              reads_back(ecs, last.components[k].ty, last.id, last.components[k].val)
    /\ (last.op = "component_mut" /\ last.ret # None) =>
          reads_back(ecs, last.ty, last.id, last.components[1].val)

\* C8, amended - Round trip: when build() returns id, component::<T>(id)
\* gives the value v of type T that was given to the builder last among
\* its values of type T; after a write through component_mut::<T>(id),
\* component::<T>(id) gives the written value.
C8_RoundTripOfLast ==
    /\ (last.op = "build" /\ ~panicked) =>
          \A k \in 1 .. Len(last.components) :
              (\A j \in (k + 1) .. Len(last.components) :
                    last.components[j].ty # last.components[k].ty)
              => reads_back(ecs, last.components[k].ty, last.id,
                            last.components[k].val)
    /\ (last.op = "component_mut" /\ last.ret # None) =>
          reads_back(ecs, last.ty, last.id, last.components[1].val)

\* a build on a reused id, with two different values of one type, has
\* returned
C8_Witness ==
    /\ last.op = "build" /\ ~panicked
    /\ Len(last.components) = 2
    /\ last.components[1].ty = last.components[2].ty
    /\ last.components[1].val # last.components[2].val
    /\ last.freed # << >>

\* C9 - Missing column is not an error: iterating or querying a component
\* type that has no storage yields no item and does not panic, for
\* QueryIter, component_iter / component_iter_mut and Queryable::fetch.
C9_MissingColumn ==
    (/\ last.op \in IterOps
     /\ \E k \in 1 .. Len(requested) : requested[k] \notin DOMAIN last.pre.components)
    => (~panicked /\ last.items = << >>)

\* C10 - Not found is recoverable: component::<T>(id) and
\* component_mut::<T>(id) give None, without a panic and without changing
\* the store, when id is out of range, when T has no storage, and when
\* entity id has no T component.
C10_NotFound ==
    (/\ last.op \in {"component", "component_mut"}
     /\ \/ last.id >= last.pre.next_entity_id
        \/ last.ty \notin DOMAIN last.pre.components
        \/ ~present(last.pre, last.ty, last.id))
    => (last.ret = None /\ ~panicked /\ ecs = last.pre)

\* component_mut has been asked for an id beyond the storage of its type,
\* an id below next_entity_id at that
C10_Witness ==
    /\ last.op = "component_mut"
    /\ last.ty \in DOMAIN last.pre.components
    /\ last.id >= Len(last.pre.components[last.ty])
    /\ last.id < last.pre.next_entity_id

\* C11 - No aliasing of a written column: no item a tuple Queryable::fetch
\* yields holds two references to one stored component when one of the two
\* accessors is a Mut.
C11_NoAliasing ==
    last.op = "fetch" =>
        \A k \in 1 .. Len(last.items) :
            \A i, j \in 1 .. Len(last.query) :
                (i < j /\ "Mut" \in {last.query[i].acc, last.query[j].acc})
                => last.items[k][i] # last.items[k][j]

\* C12 - Free-list invariant: every id on entity_free_list is below
\* next_entity_id, is on the list once, and has no component in any
\* storage.
C12_FreeListInvariant ==
    \A k \in 1 .. Len(ecs.entity_free_list) :
        /\ ecs.entity_free_list[k] < ecs.next_entity_id
        /\ \A j \in 1 .. Len(ecs.entity_free_list) :
              j # k => ecs.entity_free_list[j] # ecs.entity_free_list[k]
        /\ \A T \in DOMAIN ecs.components :
              ~present(ecs, T, ecs.entity_free_list[k])

\* C12, for callers that remove only entities they hold: as long as no id
\* was removed while it was not held, every id on entity_free_list is below
\* next_entity_id, is on the list once, and has no component in any storage.
C12_FreeListOfHeldRemovals ==
    (\A entity_id \in EntityIds : copies(entity_id) <= 1)
    => C12_FreeListInvariant

\* two ids, each removed while held, are on the free list of a store that
\* has storages of both types
C12_Witness ==
    /\ \A entity_id \in EntityIds : copies(entity_id) <= 1
    /\ Len(ecs.entity_free_list) = 2
    /\ DOMAIN ecs.components = Types

\* C13 - Release range check: remove_entity(id) of an id that was never
\* issued (id >= next_entity_id) fails an assertion and leaves the free
\* list as it was, so no build gives an id that is not below
\* next_entity_id.
C13_ReleaseRangeCheck ==
    /\ (last.op = "remove_entity" /\ last.id >= last.pre.next_entity_id) =>
          (panicked /\ ecs.entity_free_list = last.pre.entity_free_list)
    /\ (last.op = "build" /\ ~panicked) => last.id < ecs.next_entity_id

\* C14 - A built entity has exactly the builder's components: after build()
\* gives id, component::<T>(id) is Some exactly for the types T given to
\* the builder, also when id was taken from the free list.
C14_ExactComponents ==
    (last.op = "build" /\ ~panicked) =>
        \A T \in Types :
            (component(ecs, T, last.id) # None)
            <=> (\E k \in 1 .. Len(last.components) : last.components[k].ty = T)

\* an entity with a B component only is built on a reused id, in a store
\* whose A storage has a slot for that id
C14_Witness ==
    /\ last.op = "build" /\ ~panicked
    /\ last.id \in range(last.freed)
    /\ \A k \in 1 .. Len(last.components) : last.components[k].ty = "B"
    /\ last.components # << >>
    /\ "A" \in DOMAIN ecs.components
    /\ last.id < Len(ecs.components["A"])

\* what component::<T>(entity_id) gives, as a value
value_of(e, T, entity_id) ==
    LET r == component(e, T, entity_id) IN
    IF r = None THEN None ELSE Some(deref(e, r[1]))

\* C15 - remove_entity frame: remove_entity(id) leaves component::<T>(j) as
\* it was for every other entity j and every type T, and leaves
\* next_entity_id as it was.
C15_RemoveFrame ==
    last.op = "remove_entity" =>
        /\ ecs.next_entity_id = last.pre.next_entity_id
        /\ \A j \in EntityIds \ {last.id} : \A T \in Types :
              value_of(ecs, T, j) = value_of(last.pre, T, j)

\* an entity that has a component is removed while another entity has one
C15_Witness ==
    /\ last.op = "remove_entity" /\ ~panicked
    /\ \E T \in Types : present(last.pre, T, last.id)
    /\ \E j \in BagToSet(live) : \E T \in Types : present(ecs, T, j)

\* C16 - Single-type iteration order: component_iter::<T>() yields the T
\* component of each entity that has T, once, in ascending entity-id order,
\* and nothing else; so it yields as many items as entities have T.
C16_SingleTypeOrder ==
    last.op = "component_iter" =>
        LET ids == ascending(matching(last.pre, << last.ty >>)) IN
        /\ Len(last.items) = Cardinality(matching(last.pre, << last.ty >>))
        /\ last.items = [k \in 1 .. Len(ids) |-> Ref(last.ty, ids[k])]

\* the iteration skips entity 0, which is held and has no A, and yields the
\* A component of entity 1
C16_Witness ==
    /\ last.op = "component_iter"
    /\ last.items = << Ref("A", 1) >>
    /\ BagIn(0, live)

\* C17 - Mutable iteration writes through: after a full pass of
\* component_iter_mut::<T>() that writes v through each reference it yields,
\* component::<T>(id) gives v for every entity that had a T component, and
\* the storages of the other types, next_entity_id and the free list are
\* as they were.
C17_WritesThrough ==
    last.op = "component_iter_mut" =>
        LET T == last.ty
            v == last.components[1].val
        IN  /\ \A id \in EntityIds :
                  present(last.pre, T, id) => reads_back(ecs, T, id, v)
            /\ DOMAIN ecs.components = DOMAIN last.pre.components
            /\ \A T2 \in DOMAIN ecs.components \ {T} :
                  ecs.components[T2] = last.pre.components[T2]
            /\ ecs.next_entity_id = last.pre.next_entity_id
            /\ ecs.entity_free_list = last.pre.entity_free_list

\* the pass changes the A component of two entities, one of which also has
\* a B component
C17_Witness ==
    /\ last.op = "component_iter_mut" /\ last.ty = "A"
    /\ Len(last.items) = 2
    /\ \A k \in 1 .. 2 : deref(last.pre, last.items[k]) # last.components[1].val
    /\ \E id \in EntityIds : present(ecs, "B", id) /\ present(ecs, "A", id)

\* C18 - System::run calls the system's function once on each item of its
\* query, in the order the query yields them; after a system over
\* (Mut<T>,) that assigns c, every entity that had T holds c and no other
\* entity has a T component.
C18_SystemRun ==
    last.op = "system" =>
        LET system == last.systems[1] IN
        /\ last.items = fetch_collect(last.pre, system.query).items
        /\ (Len(system.query) = 1 /\ system.query[1].acc = "Mut") =>
              \A id \in EntityIds :
                  IF present(last.pre, system.query[1].ty, id)
                  THEN reads_back(ecs, system.query[1].ty, id, system.val)
                  ELSE component(ecs, system.query[1].ty, id) = None

\* heal_system has run over two entities whose A component held another
\* value, in a store where a third entity is held and has no A
C18_Witness ==
    /\ last.op = "system" /\ last.systems = << heal_system >>
    /\ Len(last.items) >= 1
    /\ \A k \in 1 .. Len(last.items) :
          deref(last.pre, last.items[k][1]) # heal_system.val
    /\ \E id \in BagToSet(live) : ~present(ecs, "A", id)

\* the calls a schedule makes when each system of the list, from the k-th
\* on, goes once over the items of its query
RECURSIVE calls_in_order(_, _, _)
calls_in_order(e, systems, k) ==
    IF k > Len(systems) THEN << >>
    ELSE calls_of(k, fetch_collect(e, systems[k].query).items)
             \o calls_in_order(e, systems, k + 1)

\* the systems of the last schedule that wrote the component r refers to:
\* their places in the list
writers(r) ==
    { k \in 1 .. Len(last.systems) :
        \E c \in 1 .. Len(last.items) :
            /\ last.items[c].system = k
            /\ \E j \in 1 .. Len(last.items[c].item) :
                  /\ last.systems[k].query[j].acc = "Mut"
                  /\ last.items[c].item[j] = r }

\* C19 - SystemSchedule::run runs each system of the list once, in list
\* order, a system making all its calls before the next one makes its
\* first; when run returns, each component holds what the last system that
\* wrote it assigned, and a component no system wrote is as it was.
C19_ScheduleRun ==
    (last.op = "schedule" /\ ~panicked) =>
        /\ last.items = calls_in_order(last.pre, last.systems, 1)
        /\ DOMAIN ecs.components = DOMAIN last.pre.components
        /\ \A T \in DOMAIN ecs.components :
              /\ Len(ecs.components[T]) = Len(last.pre.components[T])
              /\ \A i \in 1 .. Len(ecs.components[T]) :
                    LET w == writers(Ref(T, i - 1)) IN
                    IF w = {}
                    THEN ecs.components[T][i] = last.pre.components[T][i]
                    ELSE ecs.components[T][i] =
                           Some(Box(T, last.systems[CHOOSE k \in w :
                                                     \A j \in w : j <= k].val))

\* a schedule of two systems that assign different values to the same
\* components has run over an entity, and has left the second one's value
C19_Witness ==
    /\ last.op = "schedule" /\ ~panicked
    /\ last.systems = << heal_system, hurt_system >>
    /\ Len(last.items) = 4
    /\ \E id \in EntityIds : reads_back(ecs, "A", id, hurt_system.val)

\* C20 - Storage length invariant: every component storage has length
\* next_entity_id.
C20_StorageLength ==
    \A T \in DOMAIN ecs.components :
        Len(ecs.components[T]) = ecs.next_entity_id

\* C21 - remove_entity is total on live ids: remove_entity(id) of an id the
\* caller holds does not panic.
C21_RemoveTotal ==
    (last.op = "remove_entity" /\ BagIn(last.id, last.held)) => ~panicked

\* C22 - build is total: build() does not panic, whatever components the
\* builder was given and wherever the id comes from.
C22_BuildTotal ==
    last.op = "build" => ~panicked

\* C23 - QueryIter is total: neither QueryIter::next nor QueryIter::size_hint
\* / len panics.
C23_QueryIterTotal ==
    last.op \in {"query_iter", "query_len"} => ~panicked

\* C24 - Exact size: QueryIter::len() is the number of items the iterator
\* will still yield: the number of entities that have every requested type,
\* less the number of items yielded so far.
C24_ExactSize ==
    (last.op = "query_len" /\ ~panicked) =>
        /\ last.ret = Some(Cardinality(matching(last.pre, last.query))
                               - Len(last.items))
        /\ ~QueryIter_collect(last.pre, last.query, last.id, << >>).panic =>
              last.ret = Some(Len(QueryIter_collect(last.pre, last.query,
                                                    last.id, << >>).items))

\* C25 - Live/free partition: after every call that returned, the ids below
\* next_entity_id are the ids the caller holds together with the ids on
\* entity_free_list, no id being both, so the number of live entities is
\* next_entity_id - entity_free_list.len(); next_entity_id never decreases,
\* and only a build that finds the free list empty changes it.
C25_LiveFreePartition ==
    /\ ~panicked =>
          /\ BagToSet(live) \cup range(ecs.entity_free_list)
                = 0 .. (ecs.next_entity_id - 1)
          /\ BagToSet(live) \cap range(ecs.entity_free_list) = {}
          /\ BagCardinality(live)
                = ecs.next_entity_id - Len(ecs.entity_free_list)
    /\ last.op # "idle" =>
          /\ ecs.next_entity_id >= last.pre.next_entity_id
          /\ ecs.next_entity_id # last.pre.next_entity_id =>
                (last.op = "build" /\ last.pre.entity_free_list = << >>)

\* one entity is held and another id is on the free list
C25_Witness ==
    /\ ~panicked
    /\ ecs.next_entity_id = 2
    /\ Len(ecs.entity_free_list) = 1
    /\ BagCardinality(live) = 1

\* C26 - component_mut frame: a write through component_mut::<T>(id) changes
\* the T component of entity id and nothing else: not the components of
\* other entities, not the components of entity id of other types, not
\* next_entity_id, not the free list.
C26_ComponentMutFrame ==
    last.op = "component_mut" =>
        /\ ecs.next_entity_id = last.pre.next_entity_id
        /\ ecs.entity_free_list = last.pre.entity_free_list
        /\ DOMAIN ecs.components = DOMAIN last.pre.components
        /\ \A T \in DOMAIN ecs.components :
              /\ Len(ecs.components[T]) = Len(last.pre.components[T])
              /\ \A i \in 1 .. Len(ecs.components[T]) :
                    (T # last.ty \/ i - 1 # last.id) =>
                        ecs.components[T][i] = last.pre.components[T][i]

\* a write through component_mut has changed the A component of an entity
\* that also has a B component, while another entity has an A component
C26_Witness ==
    /\ last.op = "component_mut" /\ last.ty = "A" /\ last.ret # None
    /\ deref(last.pre, last.ret[1]) # last.components[1].val
    /\ present(ecs, "B", last.id)
    /\ \E j \in EntityIds \ {last.id} : present(ecs, "A", j)

\* the values of type T among the components of a builder, in the order
\* they were given
given(components, T) ==
    SelectSeq(components, LAMBDA c : c.ty = T)

\* the items of q that refer to the component r
items_of(q, r) == { k \in 1 .. Len(q) : q[k] = r }

\* C27 - Duplicate component type in one builder: when a builder was given
\* several values of one type T, the built entity has one T component, the
\* value given last; component::<T> and the iterations over T give that
\* value for the entity, once.
C27_DuplicateLastWins ==
    (last.op = "build" /\ ~panicked) =>
        \A T \in Types :
            Len(given(last.components, T)) >= 2 =>
                LET v == last_of(given(last.components, T)).val
                    r == Ref(T, last.id)
                    c == component_iter(ecs, T)
                    q == QueryIter_collect(ecs, << T >>, 0, << >>)
                IN  /\ reads_back(ecs, T, last.id, v)
                    /\ deref(ecs, r) = v
                    /\ Cardinality(items_of(c.items, r)) = 1
                    /\ Cardinality(items_of(q.items, << r >>)) <= 1
                    /\ ~q.panic => Cardinality(items_of(q.items, << r >>)) = 1

\* an entity is built on a fresh id with two different values of a type
\* that another entity has too
C27_Witness ==
    /\ last.op = "build" /\ ~panicked
    /\ last.components = << Box("A", "v"), Box("A", "w") >>
    /\ last.pre.entity_free_list = << >>
    /\ \E j \in EntityIds \ {last.id} : present(ecs, "A", j)

\* C28 - The two query engines agree: the items <(T1, T2)>::iter of lib.rs
\* yields on a store are the items <(Imm<T1>, Imm<T2>)>::fetch of query.rs
\* yields on the core::Ecs that the same builds and removals make, which
\* holds the same next_entity_id, free list and storages.
C28_EnginesAgree ==
    (last.op = "query_iter" /\ Len(last.query) = 2) =>
        last.items = fetch_collect(last.pre, << Imm(last.query[1]),
                                               Imm(last.query[2]) >>).items

====
